---- MODULE Spec2Model ----
(***************************************************************************)
(* Model of jarviscli/plugins/calories_macros.py: the "calories" plugin.   *)
(*                                                                         *)
(* The plugin prompts for six values (gender, age, height, weight,         *)
(* activity level, goal), validates each one in a retry loop, builds a     *)
(* CalorieCalculator and reports the recommended daily calorie intake.     *)
(*                                                                         *)
(* Representation choices:                                                 *)
(*  - a Python str is the sequence of its code points;                     *)
(*  - a Python int has any size: a sign and the limbs of its magnitude;    *)
(*  - a Python float is an IEEE 754 binary64 number, every operation       *)
(*    rounded to 53 bits, overflowing to an infinity;                      *)
(*  - an operation that can raise gives [ok |-> TRUE, value |-> v] or      *)
(*    [ok |-> FALSE, error |-> the exception's name];                      *)
(*  - an unbound Python local is a name missing from the frame's domain.   *)
(***************************************************************************)
EXTENDS Integers, Sequences, FiniteSets, TLC

VARIABLES pc, locals, calculator, frame, said, prompts, line, printed, err

vars == <<pc, locals, calculator, frame, said, prompts, line, printed, err>>

(* pc          where __call__ is                                            *)
(* locals      the locals of __call__ that are bound                        *)
(* calculator  <<>> or the one CalorieCalculator                            *)
(* frame       the locals of calc_daily_calorie_intake that are bound       *)
(* said        the texts given to jarvis.say, in order                      *)
(* prompts     the prompts given to jarvis.input, in order                  *)
(* line        the line jarvis.input returned last                          *)
(* printed     the texts given to print, in order                           *)
(* err         the exception that ended the run, "" if none                 *)

(* Largest number of error messages one run prints. *)
MaxRetries == 2

Empty == [n \in {} |-> 0]

----------------------------------------------------------------------------
(* Natural numbers of any size: the limbs in base 2^15, least significant  *)
(* first, no zero limb at the top; <<>> is 0.                              *)

LimbBits == 15
Base == 32768

(* a without the zero limbs at its top. *)
NatNorm(a) ==
    IF a = <<>> THEN <<>>
    ELSE IF a[Len(a)] # 0 THEN a
    ELSE LET m == CHOOSE n \in 0..Len(a) :
                      /\ n = 0 \/ a[n] # 0
                      /\ \A i \in (n + 1)..Len(a) : a[i] = 0
         IN  SubSeq(a, 1, m)

(* The natural number n, for n a TLA+ number in 0 .. 2^31 - 1. *)
NatOf(n) == NatNorm(<<n % Base, (n \div Base) % Base, n \div (Base * Base)>>)

NatLimb(a, i) == IF i \in 1..Len(a) THEN a[i] ELSE 0

(* -1, 0 or 1 as a < b, a = b or a > b. *)
NatCmp(a, b) ==
    IF Len(a) # Len(b) THEN (IF Len(a) < Len(b) THEN -1 ELSE 1)
    ELSE IF a = b THEN 0
    ELSE LET top == CHOOSE i \in 1..Len(a) :
                        a[i] # b[i] /\ \A j \in (i + 1)..Len(a) : a[j] = b[j]
         IN  IF a[top] < b[top] THEN -1 ELSE 1

(* a + b: the limbs are added one by one, and the carry into a limb comes  *)
(* from the nearest limb below it whose sum is not Base - 1.               *)
NatAdd(a, b) ==
    LET n == IF Len(a) < Len(b) THEN Len(b) ELSE Len(a)
        s == [i \in 1..n |-> NatLimb(a, i) + NatLimb(b, i)]
        carry(i) ==
            IF i = 1 THEN 0
            ELSE IF s[i - 1] # Base - 1 THEN (IF s[i - 1] >= Base THEN 1 ELSE 0)
            ELSE IF \E j \in 1..(i - 2) :
                        s[j] >= Base /\ \A k \in (j + 1)..(i - 2) : s[k] = Base - 1
            THEN 1 ELSE 0
    IN  NatNorm([i \in 1..(n + 1) |->
                    IF i <= n THEN (s[i] + carry(i)) % Base ELSE carry(i)])

(* a - b for a >= b: the borrow from a limb goes to the nearest limb below *)
(* it whose difference is not 0.                                           *)
NatSub(a, b) ==
    LET d == [i \in 1..Len(a) |-> a[i] - NatLimb(b, i)]
        borrow(i) ==
            IF i = 1 THEN 0
            ELSE IF d[i - 1] # 0 THEN (IF d[i - 1] < 0 THEN 1 ELSE 0)
            ELSE IF \E j \in 1..(i - 2) :
                        d[j] < 0 /\ \A k \in (j + 1)..(i - 2) : d[k] = 0
            THEN 1 ELSE 0
    IN  NatNorm([i \in 1..Len(a) |-> (d[i] - borrow(i) + Base) % Base])

(* a * k + c for 0 <= k < Base and 0 <= c < 2^31. *)
NatMulSmallAdd(a, k, c) ==
    LET low == [i \in 1..Len(a) |-> (a[i] * k) % Base]
        high == [i \in 1..(Len(a) + 1) |-> IF i = 1 THEN 0 ELSE (a[i - 1] * k) \div Base]
    IN  NatAdd(NatAdd(NatNorm(low), NatNorm(high)), NatOf(c))

NatMulSmall(a, k) == NatMulSmallAdd(a, k, 0)

NatShiftLimbs(a, k) == IF a = <<>> THEN <<>> ELSE [i \in 1..k |-> 0] \o a

(* a times the limbs lo..hi of b, each at its place. *)
RECURSIVE NatMulRange(_, _, _, _)
NatMulRange(a, b, lo, hi) ==
    IF lo = hi THEN NatShiftLimbs(NatMulSmall(a, b[lo]), lo - 1)
    ELSE NatAdd(NatMulRange(a, b, lo, (lo + hi) \div 2),
                NatMulRange(a, b, (lo + hi) \div 2 + 1, hi))

NatMul(a, b) == IF a = <<>> \/ b = <<>> THEN <<>> ELSE NatMulRange(a, b, 1, Len(b))

(* Quotient and remainder of a by d, 0 < d < Base: limb i downwards. *)
RECURSIVE NatDivSmallFrom(_, _, _, _)
NatDivSmallFrom(a, d, i, rem) ==
    IF i = 0 THEN [quot |-> <<>>, rem |-> rem]
    ELSE LET cur == rem * Base + a[i]
             rest == NatDivSmallFrom(a, d, i - 1, cur % d)
         IN  [quot |-> Append(rest.quot, cur \div d), rem |-> rest.rem]

NatDivSmall(a, d) ==
    LET r == NatDivSmallFrom(a, d, Len(a), 0)
    IN  [quot |-> NatNorm(r.quot), rem |-> r.rem]

(* a * 2^s *)
NatShl(a, s) ==
    LET p == 2 ^ (s % LimbBits)
    IN  NatShiftLimbs(
            NatNorm([i \in 1..(Len(a) + 1) |->
                        ((NatLimb(a, i) * p) % Base) + ((NatLimb(a, i - 1) * p) \div Base)]),
            s \div LimbBits)

(* a \div 2^s *)
NatShr(a, s) ==
    LET k == s \div LimbBits
        p == 2 ^ (s % LimbBits)
        q == Base \div p
    IN  IF Len(a) <= k THEN <<>>
        ELSE NatNorm([i \in 1..(Len(a) - k) |->
                         (a[i + k] \div p) + (NatLimb(a, i + k + 1) % p) * q])

(* a % 2^s *)
NatLow(a, s) ==
    LET k == s \div LimbBits
        p == 2 ^ (s % LimbBits)
        n == IF Len(a) <= k THEN Len(a) ELSE k + 1
    IN  NatNorm([i \in 1..n |-> IF i <= k THEN a[i] ELSE a[i] % p])

NatPow2(s) ==
    [i \in 1..(s \div LimbBits + 1) |->
        IF i = s \div LimbBits + 1 THEN 2 ^ (s % LimbBits) ELSE 0]

(* The number of bits of a: 0 for 0. *)
NatBitLen(a) ==
    IF a = <<>> THEN 0
    ELSE LimbBits * (Len(a) - 1)
            + (CHOOSE n \in 1..LimbBits : 2 ^ (n - 1) <= a[Len(a)] /\ a[Len(a)] < 2 ^ n)

NatIsOdd(a) == a # <<>> /\ a[1] % 2 = 1

(* The number of zero bits at the low end of a # 0. *)
NatTrailingZeros(a) ==
    LET j == CHOOSE i \in 1..Len(a) : a[i] # 0 /\ \A h \in 1..(i - 1) : a[h] = 0
    IN  LimbBits * (j - 1)
            + (CHOOSE n \in 0..(LimbBits - 1) : a[j] % (2 ^ (n + 1)) = 2 ^ n)

----------------------------------------------------------------------------
(* Python int: sign and magnitude; 0 is never negative.                    *)

MkInt(neg, mag) == [neg |-> neg /\ mag # <<>>, mag |-> mag]

(* The int n, for n a TLA+ number with -2^31 < n < 2^31. *)
IntOf(n) == MkInt(n < 0, NatOf(IF n < 0 THEN -n ELSE n))

IntNeg(a) == MkInt(~a.neg, a.mag)

IntAdd(a, b) ==
    IF a.neg = b.neg THEN MkInt(a.neg, NatAdd(a.mag, b.mag))
    ELSE IF NatCmp(a.mag, b.mag) >= 0 THEN MkInt(a.neg, NatSub(a.mag, b.mag))
    ELSE MkInt(b.neg, NatSub(b.mag, a.mag))

IntSub(a, b) == IntAdd(a, IntNeg(b))

IntMul(a, b) == MkInt(a.neg # b.neg, NatMul(a.mag, b.mag))

(* -1, 0 or 1 as a < b, a = b or a > b. *)
IntCmp(a, b) ==
    IF a.neg # b.neg THEN (IF a.neg THEN -1 ELSE 1)
    ELSE IF a.neg THEN NatCmp(b.mag, a.mag) ELSE NatCmp(a.mag, b.mag)

IntLt(a, b) == IntCmp(a, b) < 0
IntLe(a, b) == IntCmp(a, b) <= 0

----------------------------------------------------------------------------
(* Python float (IEEE 754 binary64): mant * 2^exp with at most 53 bits of  *)
(* mantissa, held with an odd mantissa (0 as mantissa 0, exponent 0), or   *)
(* an infinity.  Results are rounded to nearest, ties to even.  NaN, -0.0  *)
(* and subnormal numbers do not arise from the calculator's operations.    *)

MantBits == 53
MaxExp == 1024

Inf(neg) == [inf |-> TRUE, neg |-> neg, mant |-> <<>>, exp |-> 0]

(* The number mant * 2^exp written with an odd mantissa. *)
Dyadic(neg, mant, exp) ==
    IF mant = <<>> THEN [inf |-> FALSE, neg |-> FALSE, mant |-> <<>>, exp |-> 0]
    ELSE LET tz == NatTrailingZeros(mant)
         IN  [inf |-> FALSE, neg |-> neg, mant |-> NatShr(mant, tz), exp |-> exp + tz]

(* n * 2^e rounded to 53 bits; the infinity when that is 2^1024 or more.   *)
FloatRound(neg, n, e) ==
    LET len == NatBitLen(n)
        s == len - MantBits
        q == NatShr(n, s)
        c == NatCmp(NatLow(n, s), NatPow2(s - 1))
        m == IF c > 0 \/ (c = 0 /\ NatIsOdd(q)) THEN NatAdd(q, <<1>>) ELSE q
    IN  IF len <= MantBits
        THEN (IF len + e > MaxExp THEN Inf(neg) ELSE Dyadic(neg, n, e))
        ELSE IF NatBitLen(m) + e + s > MaxExp THEN Inf(neg)
        ELSE Dyadic(neg, m, e + s)

(* The exact sum of two finite numbers, not rounded. *)
DyadicAdd(a, b) ==
    LET e == IF a.exp < b.exp THEN a.exp ELSE b.exp
        sum == IntAdd(MkInt(a.neg, NatShl(a.mant, a.exp - e)),
                      MkInt(b.neg, NatShl(b.mant, b.exp - e)))
    IN  Dyadic(sum.neg, sum.mag, e)

FloatAdd(a, b) ==
    IF a.inf THEN a
    ELSE IF b.inf THEN b
    ELSE LET sum == DyadicAdd(a, b) IN FloatRound(sum.neg, sum.mant, sum.exp)

FloatMul(a, b) ==
    IF a.inf \/ b.inf THEN Inf(a.neg # b.neg)
    ELSE FloatRound(a.neg # b.neg, NatMul(a.mant, b.mant), a.exp + b.exp)

(* The float nearest to num / den, for TLA+ numbers num >= 0 and           *)
(* 0 < den < 2^15: what a decimal literal such as 6.25 or 1.2 denotes.     *)
(* The quotient is taken with enough bits below the point to have two or   *)
(* more bits beyond the 53 kept, and a last bit that tells whether the     *)
(* division left a remainder.                                              *)
FloatLiteral(num, den) ==
    LET shift == MantBits + 2 + NatBitLen(NatOf(den))
        d == NatDivSmall(NatShl(NatOf(num), shift), den)
        sticky == IF d.rem = 0 THEN <<>> ELSE <<1>>
    IN  FloatRound(FALSE, NatAdd(NatShl(d.quot, 1), sticky), -(shift + 1))

(* float(i) for an int i: OverflowError when i is too large. *)
FloatOfInt(i) ==
    LET x == FloatRound(i.neg, i.mag, 0)
    IN  IF x.inf THEN [ok |-> FALSE, error |-> "OverflowError"]
        ELSE [ok |-> TRUE, value |-> x]

(* round(x) for a float x: the nearest int, ties to the even one;          *)
(* OverflowError for an infinity.                                          *)
round(x) ==
    IF x.inf THEN [ok |-> FALSE, error |-> "OverflowError"]
    ELSE IF x.exp >= 0 THEN [ok |-> TRUE, value |-> MkInt(x.neg, NatShl(x.mant, x.exp))]
    ELSE LET s == -x.exp
             q == NatShr(x.mant, s)
             c == NatCmp(NatLow(x.mant, s), NatPow2(s - 1))
             m == IF c > 0 \/ (c = 0 /\ NatIsOdd(q)) THEN NatAdd(q, <<1>>) ELSE q
         IN  [ok |-> TRUE, value |-> MkInt(x.neg, m)]

----------------------------------------------------------------------------
(* Python str: the sequence of its code points ("M" is <<77>>).            *)

(* The printable ASCII characters, from code point 32 on (the grave        *)
(* accent, code point 96, by its name).                                   *)
Ascii ==
    <<" ", "!", "\"", "#", "$", "%", "&", "'", "(", ")", "*", "+", ",", "-", ".", "/",
      "0", "1", "2", "3", "4", "5", "6", "7", "8", "9", ":", ";", "<", "=", ">", "?",
      "@", "A", "B", "C", "D", "E", "F", "G", "H", "I", "J", "K", "L", "M", "N", "O",
      "P", "Q", "R", "S", "T", "U", "V", "W", "X", "Y", "Z", "[", "\\", "]", "^", "_",
      "GRAVE", "a", "b", "c", "d", "e", "f", "g", "h", "i", "j", "k", "l", "m", "n", "o",
      "p", "q", "r", "s", "t", "u", "v", "w", "x", "y", "z", "{", "|", "}", "~">>

Ord(c) == 31 + CHOOSE i \in 1..Len(Ascii) : Ascii[i] = c

(* The str with the given ASCII characters. *)
Str(chars) == [i \in 1..Len(chars) |-> Ord(chars[i])]

M == Str(<<"M">>)
F == Str(<<"F">>)

(* str.upper, character by character.  A range <<lo, hi, step, delta>>     *)
(* sends the code points lo, lo + step, ..., hi to themselves plus delta;  *)
(* a special <<c, s>> sends the code point c to the str s.                 *)
UpperRanges ==
    <<
      <<97, 122, 1, -32>>, <<181, 181, 1, 743>>, <<224, 246, 1, -32>>,
      <<248, 254, 1, -32>>, <<255, 255, 1, 121>>, <<257, 303, 2, -1>>,
      <<305, 305, 1, -232>>, <<307, 311, 2, -1>>, <<314, 328, 2, -1>>,
      <<331, 375, 2, -1>>, <<378, 382, 2, -1>>, <<383, 383, 1, -300>>,
      <<384, 384, 1, 195>>, <<387, 389, 2, -1>>, <<392, 392, 1, -1>>,
      <<396, 396, 1, -1>>, <<402, 402, 1, -1>>, <<405, 405, 1, 97>>,
      <<409, 409, 1, -1>>, <<410, 410, 1, 163>>, <<414, 414, 1, 130>>,
      <<417, 421, 2, -1>>, <<424, 424, 1, -1>>, <<429, 429, 1, -1>>,
      <<432, 432, 1, -1>>, <<436, 438, 2, -1>>, <<441, 441, 1, -1>>,
      <<445, 445, 1, -1>>, <<447, 447, 1, 56>>, <<453, 453, 1, -1>>,
      <<454, 454, 1, -2>>, <<456, 456, 1, -1>>, <<457, 457, 1, -2>>,
      <<459, 459, 1, -1>>, <<460, 460, 1, -2>>, <<462, 476, 2, -1>>,
      <<477, 477, 1, -79>>, <<479, 495, 2, -1>>, <<498, 498, 1, -1>>,
      <<499, 499, 1, -2>>, <<501, 501, 1, -1>>, <<505, 543, 2, -1>>,
      <<547, 563, 2, -1>>, <<572, 572, 1, -1>>, <<575, 576, 1, 10815>>,
      <<578, 578, 1, -1>>, <<583, 591, 2, -1>>, <<592, 592, 1, 10783>>,
      <<593, 593, 1, 10780>>, <<594, 594, 1, 10782>>, <<595, 595, 1, -210>>,
      <<596, 596, 1, -206>>, <<598, 599, 1, -205>>, <<601, 601, 1, -202>>,
      <<603, 603, 1, -203>>, <<604, 604, 1, 42319>>, <<608, 608, 1, -205>>,
      <<609, 609, 1, 42315>>, <<611, 611, 1, -207>>, <<613, 613, 1, 42280>>,
      <<614, 614, 1, 42308>>, <<616, 616, 1, -209>>, <<617, 617, 1, -211>>,
      <<618, 618, 1, 42308>>, <<619, 619, 1, 10743>>, <<620, 620, 1, 42305>>,
      <<623, 623, 1, -211>>, <<625, 625, 1, 10749>>, <<626, 626, 1, -213>>,
      <<629, 629, 1, -214>>, <<637, 637, 1, 10727>>, <<640, 640, 1, -218>>,
      <<642, 642, 1, 42307>>, <<643, 643, 1, -218>>, <<647, 647, 1, 42282>>,
      <<648, 648, 1, -218>>, <<649, 649, 1, -69>>, <<650, 651, 1, -217>>,
      <<652, 652, 1, -71>>, <<658, 658, 1, -219>>, <<669, 669, 1, 42261>>,
      <<670, 670, 1, 42258>>, <<837, 837, 1, 84>>, <<881, 883, 2, -1>>,
      <<887, 887, 1, -1>>, <<891, 893, 1, 130>>, <<940, 940, 1, -38>>,
      <<941, 943, 1, -37>>, <<945, 961, 1, -32>>, <<962, 962, 1, -31>>,
      <<963, 971, 1, -32>>, <<972, 972, 1, -64>>, <<973, 974, 1, -63>>,
      <<976, 976, 1, -62>>, <<977, 977, 1, -57>>, <<981, 981, 1, -47>>,
      <<982, 982, 1, -54>>, <<983, 983, 1, -8>>, <<985, 1007, 2, -1>>,
      <<1008, 1008, 1, -86>>, <<1009, 1009, 1, -80>>, <<1010, 1010, 1, 7>>,
      <<1011, 1011, 1, -116>>, <<1013, 1013, 1, -96>>, <<1016, 1016, 1, -1>>,
      <<1019, 1019, 1, -1>>, <<1072, 1103, 1, -32>>, <<1104, 1119, 1, -80>>,
      <<1121, 1153, 2, -1>>, <<1163, 1215, 2, -1>>, <<1218, 1230, 2, -1>>,
      <<1231, 1231, 1, -15>>, <<1233, 1327, 2, -1>>, <<1377, 1414, 1, -48>>,
      <<4304, 4346, 1, 3008>>, <<4349, 4351, 1, 3008>>,
      <<5112, 5117, 1, -8>>, <<7296, 7296, 1, -6254>>,
      <<7297, 7297, 1, -6253>>, <<7298, 7298, 1, -6244>>,
      <<7299, 7300, 1, -6242>>, <<7301, 7301, 1, -6243>>,
      <<7302, 7302, 1, -6236>>, <<7303, 7303, 1, -6181>>,
      <<7304, 7304, 1, 35266>>, <<7545, 7545, 1, 35332>>,
      <<7549, 7549, 1, 3814>>, <<7566, 7566, 1, 35384>>,
      <<7681, 7829, 2, -1>>, <<7835, 7835, 1, -59>>, <<7841, 7935, 2, -1>>,
      <<7936, 7943, 1, 8>>, <<7952, 7957, 1, 8>>, <<7968, 7975, 1, 8>>,
      <<7984, 7991, 1, 8>>, <<8000, 8005, 1, 8>>, <<8017, 8023, 2, 8>>,
      <<8032, 8039, 1, 8>>, <<8048, 8049, 1, 74>>, <<8050, 8053, 1, 86>>,
      <<8054, 8055, 1, 100>>, <<8056, 8057, 1, 128>>, <<8058, 8059, 1, 112>>,
      <<8060, 8061, 1, 126>>, <<8112, 8113, 1, 8>>, <<8126, 8126, 1, -7205>>,
      <<8144, 8145, 1, 8>>, <<8160, 8161, 1, 8>>, <<8165, 8165, 1, 7>>,
      <<8526, 8526, 1, -28>>, <<8560, 8575, 1, -16>>, <<8580, 8580, 1, -1>>,
      <<9424, 9449, 1, -26>>, <<11312, 11359, 1, -48>>,
      <<11361, 11361, 1, -1>>, <<11365, 11365, 1, -10795>>,
      <<11366, 11366, 1, -10792>>, <<11368, 11372, 2, -1>>,
      <<11379, 11379, 1, -1>>, <<11382, 11382, 1, -1>>,
      <<11393, 11491, 2, -1>>, <<11500, 11502, 2, -1>>,
      <<11507, 11507, 1, -1>>, <<11520, 11557, 1, -7264>>,
      <<11559, 11559, 1, -7264>>, <<11565, 11565, 1, -7264>>,
      <<42561, 42605, 2, -1>>, <<42625, 42651, 2, -1>>,
      <<42787, 42799, 2, -1>>, <<42803, 42863, 2, -1>>,
      <<42874, 42876, 2, -1>>, <<42879, 42887, 2, -1>>,
      <<42892, 42892, 1, -1>>, <<42897, 42899, 2, -1>>,
      <<42900, 42900, 1, 48>>, <<42903, 42921, 2, -1>>,
      <<42933, 42947, 2, -1>>, <<42952, 42954, 2, -1>>,
      <<42961, 42961, 1, -1>>, <<42967, 42969, 2, -1>>,
      <<42998, 42998, 1, -1>>, <<43859, 43859, 1, -928>>,
      <<43888, 43967, 1, -38864>>, <<65345, 65370, 1, -32>>,
      <<66600, 66639, 1, -40>>, <<66776, 66811, 1, -40>>,
      <<66967, 66977, 1, -39>>, <<66979, 66993, 1, -39>>,
      <<66995, 67001, 1, -39>>, <<67003, 67004, 1, -39>>,
      <<68800, 68850, 1, -64>>, <<71872, 71903, 1, -32>>,
      <<93792, 93823, 1, -32>>, <<125218, 125251, 1, -34>>
    >>

UpperSpecials ==
    <<
      <<223, <<83, 83>>>>, <<329, <<700, 78>>>>, <<496, <<74, 780>>>>,
      <<912, <<921, 776, 769>>>>, <<944, <<933, 776, 769>>>>,
      <<1415, <<1333, 1362>>>>, <<7830, <<72, 817>>>>, <<7831, <<84, 776>>>>,
      <<7832, <<87, 778>>>>, <<7833, <<89, 778>>>>, <<7834, <<65, 702>>>>,
      <<8016, <<933, 787>>>>, <<8018, <<933, 787, 768>>>>,
      <<8020, <<933, 787, 769>>>>, <<8022, <<933, 787, 834>>>>,
      <<8064, <<7944, 921>>>>, <<8065, <<7945, 921>>>>,
      <<8066, <<7946, 921>>>>, <<8067, <<7947, 921>>>>,
      <<8068, <<7948, 921>>>>, <<8069, <<7949, 921>>>>,
      <<8070, <<7950, 921>>>>, <<8071, <<7951, 921>>>>,
      <<8072, <<7944, 921>>>>, <<8073, <<7945, 921>>>>,
      <<8074, <<7946, 921>>>>, <<8075, <<7947, 921>>>>,
      <<8076, <<7948, 921>>>>, <<8077, <<7949, 921>>>>,
      <<8078, <<7950, 921>>>>, <<8079, <<7951, 921>>>>,
      <<8080, <<7976, 921>>>>, <<8081, <<7977, 921>>>>,
      <<8082, <<7978, 921>>>>, <<8083, <<7979, 921>>>>,
      <<8084, <<7980, 921>>>>, <<8085, <<7981, 921>>>>,
      <<8086, <<7982, 921>>>>, <<8087, <<7983, 921>>>>,
      <<8088, <<7976, 921>>>>, <<8089, <<7977, 921>>>>,
      <<8090, <<7978, 921>>>>, <<8091, <<7979, 921>>>>,
      <<8092, <<7980, 921>>>>, <<8093, <<7981, 921>>>>,
      <<8094, <<7982, 921>>>>, <<8095, <<7983, 921>>>>,
      <<8096, <<8040, 921>>>>, <<8097, <<8041, 921>>>>,
      <<8098, <<8042, 921>>>>, <<8099, <<8043, 921>>>>,
      <<8100, <<8044, 921>>>>, <<8101, <<8045, 921>>>>,
      <<8102, <<8046, 921>>>>, <<8103, <<8047, 921>>>>,
      <<8104, <<8040, 921>>>>, <<8105, <<8041, 921>>>>,
      <<8106, <<8042, 921>>>>, <<8107, <<8043, 921>>>>,
      <<8108, <<8044, 921>>>>, <<8109, <<8045, 921>>>>,
      <<8110, <<8046, 921>>>>, <<8111, <<8047, 921>>>>,
      <<8114, <<8122, 921>>>>, <<8115, <<913, 921>>>>,
      <<8116, <<902, 921>>>>, <<8118, <<913, 834>>>>,
      <<8119, <<913, 834, 921>>>>, <<8124, <<913, 921>>>>,
      <<8130, <<8138, 921>>>>, <<8131, <<919, 921>>>>,
      <<8132, <<905, 921>>>>, <<8134, <<919, 834>>>>,
      <<8135, <<919, 834, 921>>>>, <<8140, <<919, 921>>>>,
      <<8146, <<921, 776, 768>>>>, <<8147, <<921, 776, 769>>>>,
      <<8150, <<921, 834>>>>, <<8151, <<921, 776, 834>>>>,
      <<8162, <<933, 776, 768>>>>, <<8163, <<933, 776, 769>>>>,
      <<8164, <<929, 787>>>>, <<8166, <<933, 834>>>>,
      <<8167, <<933, 776, 834>>>>, <<8178, <<8186, 921>>>>,
      <<8179, <<937, 921>>>>, <<8180, <<911, 921>>>>, <<8182, <<937, 834>>>>,
      <<8183, <<937, 834, 921>>>>, <<8188, <<937, 921>>>>,
      <<64256, <<70, 70>>>>, <<64257, <<70, 73>>>>, <<64258, <<70, 76>>>>,
      <<64259, <<70, 70, 73>>>>, <<64260, <<70, 70, 76>>>>,
      <<64261, <<83, 84>>>>, <<64262, <<83, 84>>>>,
      <<64275, <<1348, 1350>>>>, <<64276, <<1348, 1333>>>>,
      <<64277, <<1348, 1339>>>>, <<64278, <<1358, 1350>>>>,
      <<64279, <<1348, 1341>>>>
    >>

UpperChar(c) ==
    IF \E i \in 1..Len(UpperSpecials) : UpperSpecials[i][1] = c
    THEN UpperSpecials[CHOOSE i \in 1..Len(UpperSpecials) : UpperSpecials[i][1] = c][2]
    ELSE LET hit == {i \in 1..Len(UpperRanges) :
                        /\ UpperRanges[i][1] <= c
                        /\ c <= UpperRanges[i][2]
                        /\ (c - UpperRanges[i][1]) % UpperRanges[i][3] = 0}
         IN  IF hit = {} THEN <<c>>
             ELSE <<c + UpperRanges[CHOOSE i \in hit : TRUE][4]>>

RECURSIVE upper(_)
upper(s) == IF s = <<>> THEN <<>> ELSE UpperChar(Head(s)) \o upper(Tail(s))

(* The code points int() drops at both ends of its argument. *)
Spaces ==
    {
      9, 10, 11, 12, 13, 32, 133, 160, 5760, 8192, 8193, 8194, 8195, 8196,
      8197, 8198, 8199, 8200, 8201, 8202, 8232, 8233, 8239, 8287, 12288
    }

IsSpace(c) == c \in Spaces

(* s without the spaces at both ends. *)
strip(s) ==
    LET kept == {i \in 1..Len(s) : ~IsSpace(s[i])}
    IN  IF kept = {} THEN <<>>
        ELSE SubSeq(s, CHOOSE i \in kept : \A j \in kept : i <= j,
                       CHOOSE i \in kept : \A j \in kept : j <= i)

(* The decimal digits of Unicode come in runs of ten, 0 to 9; these are    *)
(* the code points of the zeros.                                           *)
DigitZeros ==
    {
      48, 1632, 1776, 1984, 2406, 2534, 2662, 2790, 2918, 3046, 3174, 3302,
      3430, 3558, 3664, 3792, 3872, 4160, 4240, 6112, 6160, 6470, 6608, 6784,
      6800, 6992, 7088, 7232, 7248, 42528, 43216, 43264, 43472, 43504, 43600,
      44016, 65296, 66720, 68912, 69734, 69872, 69942, 70096, 70384, 70736,
      70864, 71248, 71360, 71472, 71904, 72016, 72784, 73040, 73120, 92768,
      92864, 93008, 120782, 120792, 120802, 120812, 120822, 123200, 123632,
      125264, 130032
    }

IsDigit(c) == \E z \in DigitZeros : z <= c /\ c <= z + 9

DigitVal(c) == c - (CHOOSE z \in DigitZeros : z <= c /\ c <= z + 9)

Underscore == Ord("_")

(* The digit part of an integer literal: digits, single underscores        *)
(* allowed between two digits only.                                        *)
IsDigitPart(b) ==
    /\ b # <<>>
    /\ IsDigit(b[1])
    /\ IsDigit(b[Len(b)])
    /\ \A i \in 1..Len(b) : IsDigit(b[i]) \/ b[i] = Underscore
    /\ \A i \in 1..(Len(b) - 1) : ~(b[i] = Underscore /\ b[i + 1] = Underscore)

(* 10^k *)
RECURSIVE NatPow10(_)
NatPow10(k) ==
    IF k = 0 THEN <<1>>
    ELSE LET h == NatPow10(k \div 2)
         IN  IF k % 2 = 0 THEN NatMul(h, h) ELSE NatMulSmall(NatMul(h, h), 10)

(* The natural number written by the digits d[lo], ..., d[hi]. *)
RECURSIVE DigitsValue(_, _, _)
DigitsValue(d, lo, hi) ==
    IF lo > hi THEN <<>>
    ELSE IF lo = hi THEN NatOf(DigitVal(d[lo]))
    ELSE LET mid == (lo + hi) \div 2
         IN  NatAdd(NatMul(DigitsValue(d, lo, mid), NatPow10(hi - mid)),
                    DigitsValue(d, mid + 1, hi))

IsNotUnderscore(c) == c # Underscore

(* The value of a digit part. *)
DigitPartValue(b) ==
    LET d == SelectSeq(b, IsNotUnderscore) IN DigitsValue(d, 1, Len(d))

(* The most digits int() converts (sys.int_info.default_max_str_digits). *)
MAX_STR_DIGITS == 4300

(* The conversion int(str) makes: [ok |-> TRUE, value |-> n], or           *)
(* ValueError.                                                             *)
IntFromStr(input) ==
    LET s == strip(input)
        signed == s # <<>> /\ s[1] \in {Ord("+"), Ord("-")}
        body == IF signed THEN Tail(s) ELSE s
        neg == signed /\ s[1] = Ord("-")
    IN  IF ~IsDigitPart(body) THEN [ok |-> FALSE, error |-> "ValueError"]
        ELSE IF Len(SelectSeq(body, IsNotUnderscore)) > MAX_STR_DIGITS
        THEN [ok |-> FALSE, error |-> "ValueError"]
        ELSE [ok |-> TRUE, value |-> MkInt(neg, DigitPartValue(body))]

----------------------------------------------------------------------------
(* Raw lines the user may type *)

Zeros(n) == [i \in 1..n |-> Ord("0")]

(* "14" between a no-break space and an ideographic space. *)
SpacedFourteen == <<160>> \o Str(<<"1", "4">>) \o <<12288>>

(* 13 in fullwidth digits. *)
FullwidthThirteen == <<65297, 65299>>

(* 2 * 10^15: a height whose RMR is not exact as a float. *)
HeightInexact == Str(<<"2">>) \o Zeros(15)

(* 2 * 10^308: a height too large for a float. *)
HeightTooLarge == Str(<<"2">>) \o Zeros(308)

(* One digit more than int() converts. *)
TooManyDigits == [i \in 1..(MAX_STR_DIGITS + 1) |-> Ord("1")]

RawCommon == { Str(<<"x">>), Str(<<"0">>) }

RawGender ==
    { Str(<<"m">>), Str(<<"M">>), Str(<<"f">>), Str(<<"F">>), Str(<<"x">>), <<>>,
      Str(<<"m", "a", "l", "e">>), Str(<<" ", "M">>) }

RawAge ==
    RawCommon \cup { <<>>, Str(<<"1", "0">>), FullwidthThirteen, SpacedFourteen,
                     Str(<<"2", "5">>), Str(<<"1", "0", "0", "0">>) }
RawHeight ==
    RawCommon \cup { Str(<<"-", "5">>), Str(<<"1", "6", "0">>), Str(<<"_", "1">>),
                     HeightInexact, HeightTooLarge }
RawWeight ==
    RawCommon \cup { Str(<<"2", ".", "5">>), Str(<<"5", "0">>), Str(<<"+", "8", "_", "0">>),
                     Str(<<"8", "_">>), TooManyDigits }
RawActivityLevel ==
    RawCommon \cup { Str(<<"1">>), Str(<<"2">>), Str(<<"3">>), Str(<<"4">>), Str(<<"5">>),
                     Str(<<"-", "-", "1">>) }
RawGoal ==
    RawCommon \cup { Str(<<"1">>), Str(<<" ", "2">>), Str(<<"3">>), Str(<<"4">>),
                     Str(<<"+", " ", "3">>) }

(* int() of the lines above, converted once. *)
Converted ==
    {<<l, IntFromStr(l)>> : l \in RawAge \cup RawHeight \cup RawWeight
                                     \cup RawActivityLevel \cup RawGoal}

(* int(str): [ok |-> TRUE, value |-> n], or ValueError. *)
int(input) ==
    IF \E c \in Converted : c[1] = input
    THEN (CHOOSE c \in Converted : c[1] = input)[2]
    ELSE IntFromStr(input)

----------------------------------------------------------------------------
(* CalorieCalculator *)

WEIGHT_LOSS == IntOf(1)
WEIGHT_GAIN == IntOf(3)

WEIGHT_FACTOR == IntOf(10)
HEIGHT_FACTOR == FloatLiteral(625, 100)
AGE_FACTOR == IntOf(-5)
MALE_CONSTANT == IntOf(5)
FEMALE_CONSTANT == IntOf(-161)

CalorieCalculator(gender, age, height, weight, activity_level, goal) ==
    [_gender |-> gender, _age |-> age, _height |-> height, _weight |-> weight,
     _activity_level |-> activity_level, _goal |-> goal]

(* WEIGHT_FACTOR * weight + HEIGHT_FACTOR * height + AGE_FACTOR * age      *)
(* + gender_constant, left to right: a float, or OverflowError when an int *)
(* is too large to convert.                                                *)
_calc_rmr(self) ==
    LET gender_constant ==
            IF self._gender = M THEN MALE_CONSTANT ELSE FEMALE_CONSTANT
        weight_term == FloatOfInt(IntMul(WEIGHT_FACTOR, self._weight))
        height == FloatOfInt(self._height)
        age_term == FloatOfInt(IntMul(AGE_FACTOR, self._age))
    IN  IF ~height.ok THEN height
        ELSE IF ~weight_term.ok THEN weight_term
        ELSE IF ~age_term.ok THEN age_term
        ELSE [ok |-> TRUE,
              value |-> FloatAdd(
                            FloatAdd(FloatAdd(weight_term.value,
                                              FloatMul(HEIGHT_FACTOR, height.value)),
                                     age_term.value),
                            FloatOfInt(gender_constant).value)]

ACTIVITY_FACTORS ==
    (IntOf(1) :> FloatLiteral(12, 10)) @@ (IntOf(2) :> FloatLiteral(1375, 1000))
        @@ (IntOf(3) :> FloatLiteral(155, 100)) @@ (IntOf(4) :> FloatLiteral(1725, 1000))

(* The lookup with a default factor for a missing level. *)
ACTIVITY_FACTORS_get_default(level) ==
    IF level \in DOMAIN ACTIVITY_FACTORS THEN <<ACTIVITY_FACTORS[level]>>
    ELSE <<FloatLiteral(12, 10)>>

(* dict.get: the value in a one-element sequence, or <<>> for None. *)
ACTIVITY_FACTORS_get(level) ==
    IF level \in DOMAIN ACTIVITY_FACTORS THEN <<ACTIVITY_FACTORS[level]>> ELSE <<>>

(* round(rmr * factor): TypeError when the lookup gave None, OverflowError *)
(* when the product is an infinity.                                        *)
_calc_tdee(self, rmr) ==
    LET factor == ACTIVITY_FACTORS_get(self._activity_level)
    IN  IF factor = <<>>
        THEN [ok |-> FALSE, error |-> "TypeError"]
        ELSE round(FloatMul(rmr, factor[1]))

DAILY_CALORIC_DEFICIT == IntOf(500)
DAILY_CALORIC_SURPLUS == IntOf(500)

(* The goal adjustment with the deficit added instead of subtracted. *)
_calc_daily_calorie_intake_added(self, tdee) ==
    IF self._goal = WEIGHT_LOSS THEN IntAdd(tdee, DAILY_CALORIC_DEFICIT)
    ELSE IF self._goal = WEIGHT_GAIN THEN IntAdd(tdee, DAILY_CALORIC_SURPLUS)
    ELSE tdee

_calc_daily_calorie_intake(self, tdee) ==
    IF self._goal = WEIGHT_LOSS THEN IntSub(tdee, DAILY_CALORIC_DEFICIT)
    ELSE IF self._goal = WEIGHT_GAIN THEN IntAdd(tdee, DAILY_CALORIC_SURPLUS)
    ELSE tdee

(* The whole pipeline: the intake, or the exception of the step that       *)
(* raised.                                                                 *)
calc_daily_calorie_intake(self) ==
    LET rmr == _calc_rmr(self)
        tdee == _calc_tdee(self, rmr.value)
    IN  IF ~rmr.ok THEN rmr
        ELSE IF ~tdee.ok THEN tdee
        ELSE [ok |-> TRUE, value |-> _calc_daily_calorie_intake(self, tdee.value)]

MIN_SUGGESTED_MALE_CAL_INTAKE == IntOf(1500)
MIN_SUGGESTED_FEMALE_CAL_INTAKE == IntOf(1200)

(* One jarvis.say call: the fixed text and the number formatted into it.   *)
Message(text, number) == [text |-> text, number |-> number]

MaleCautionText == "The calculated daily calorie intake was below the suggested of 1500 cal for males. We suggest you to consult a nutrition expert to help you achieve your goal!"
FemaleCautionText == "The calculated daily calorie intake was below the suggested of 1200 cal for females. We suggest you to consult a nutrition expert to help you achieve your goal!"
LossText == "The recommended daily calorie intake to achieve a weight loss of ~0.5kg/week is: "
GainText == "The recommended daily calorie intake to achieve a weight gain of ~0.5kg/week is: "
MaintainText == "The recommended daily calorie intake to maintain your current weight is: "

(* display_calorie_results comparing with <= : an intake equal to the     *)
(* minimum is cautioned.                                                  *)
display_calorie_results_le(self, cal_intake) ==
    IF self._gender = M /\ IntLe(cal_intake, MIN_SUGGESTED_MALE_CAL_INTAKE)
    THEN Message(MaleCautionText, <<>>)
    ELSE IF self._gender = F /\ IntLe(cal_intake, MIN_SUGGESTED_FEMALE_CAL_INTAKE)
    THEN Message(FemaleCautionText, <<>>)
    ELSE IF self._goal = WEIGHT_LOSS THEN Message(LossText, <<cal_intake>>)
    ELSE IF self._goal = WEIGHT_GAIN THEN Message(GainText, <<cal_intake>>)
    ELSE Message(MaintainText, <<cal_intake>>)

(* display_calorie_results without the check for females. *)
display_calorie_results_male_only(self, cal_intake) ==
    IF self._gender = M /\ IntLt(cal_intake, MIN_SUGGESTED_MALE_CAL_INTAKE)
    THEN Message(MaleCautionText, <<>>)
    ELSE IF self._goal = WEIGHT_LOSS THEN Message(LossText, <<cal_intake>>)
    ELSE IF self._goal = WEIGHT_GAIN THEN Message(GainText, <<cal_intake>>)
    ELSE Message(MaintainText, <<cal_intake>>)

(* The message display_calorie_results says. *)
display_calorie_results(self, cal_intake) ==
    IF self._gender = M /\ IntLt(cal_intake, MIN_SUGGESTED_MALE_CAL_INTAKE)
    THEN Message(MaleCautionText, <<>>)
    ELSE IF self._gender = F /\ IntLt(cal_intake, MIN_SUGGESTED_FEMALE_CAL_INTAKE)
    THEN Message(FemaleCautionText, <<>>)
    ELSE IF self._goal = WEIGHT_LOSS THEN Message(LossText, <<cal_intake>>)
    ELSE IF self._goal = WEIGHT_GAIN THEN Message(GainText, <<cal_intake>>)
    ELSE Message(MaintainText, <<cal_intake>>)

----------------------------------------------------------------------------
(* Input collector *)

FieldOrder == <<"gender", "age", "height", "weight", "activity_level", "goal">>

InputMsg ==
    [gender |-> "Gender (M/F): ", age |-> "Age: ", height |-> "Height (cm): ",
     weight |-> "Weight (kg): ",
     activity_level |-> "Choose your activity level (1-4): ",
     goal |-> "Choose your goal (1-3): "]

ErrorMsg ==
    [gender |-> "Oops! That was not a valid gender. Please try again (M/F)...",
     age |-> "We suggest you to consult a nutrition expert if you are under 14 years old.\nIf you made a mistake while entering your age, try again...",
     height |-> "Oops! That was not a valid height. Try again...",
     weight |-> "Oops! That was not a valid weight. Try again...",
     activity_level |-> "Oops! Invalid input. Try again (1-4)...",
     goal |-> "Oops! Invalid input. Try again (1-3)..."]

(* Text printed in red; the colours of jarvis.say texts are left out. *)
red(content) == [color |-> "RED", content |-> content]

validate_gender(gender) == upper(gender) = M \/ upper(gender) = F

(* The lambdas of __call__: TRUE when the value is out of range. *)
AgeExpression(age) == IntLt(age, IntOf(14))
(* The height lambda with < for <= : a height of 0 passes. *)
HeightExpression_lt(height) == IntLt(height, IntOf(0))

HeightExpression(height) == IntLe(height, IntOf(0))
WeightExpression(weight) == IntLe(weight, IntOf(0))
ActivityLevelExpression(activity_level) ==
    ~(IntLe(IntOf(1), activity_level) /\ IntLe(activity_level, IntOf(4)))
GoalExpression(goal) == ~(IntLe(IntOf(1), goal) /\ IntLe(goal, IntOf(3)))

bool_expression(field, value) ==
    CASE field = "age" -> AgeExpression(value)
      [] field = "height" -> HeightExpression(value)
      [] field = "weight" -> WeightExpression(value)
      [] field = "activity_level" -> ActivityLevelExpression(value)
      [] field = "goal" -> GoalExpression(value)

(* validate_input that does not turn a ValueError into False. *)
validate_input_uncaught(input, field) ==
    LET parsed == int(input)
    IN  IF ~parsed.ok THEN TRUE
        ELSE IF bool_expression(field, parsed.value) THEN FALSE
        ELSE TRUE

(* validate_input with the lambda of the given field. *)
validate_input(input, field) ==
    LET parsed == int(input)
    IN  IF ~parsed.ok THEN FALSE
        ELSE IF bool_expression(field, parsed.value) THEN FALSE
        ELSE TRUE

display_welcome_message ==
    <<Message("Hello! In order to calculate your daily calorie intake i will need some information about you. Lets start...", <<>>)>>

display_activity_levels ==
    <<Message("Activity levels:", <<>>),
      Message("[1] Little or no exercise", <<>>),
      Message("[2] Light exercise 1-3 days a week", <<>>),
      Message("[3] Moderate exercise 4-5 days a week", <<>>),
      Message("[4] Hard exercise every day", <<>>)>>

display_goals ==
    <<Message("Goals:", <<>>),
      Message("[1] Lose weight", <<>>),
      Message("[2] Maintain weight", <<>>),
      Message("[3] Gain weight", <<>>)>>

----------------------------------------------------------------------------
(* __call__ *)

Init ==
    /\ pc = "start"
    /\ locals = Empty
    /\ calculator = <<>>
    /\ frame = Empty
    /\ said = <<>>
    /\ prompts = <<>>
    /\ line = <<>>
    /\ printed = <<>>
    /\ err = ""

Call ==
    /\ pc = "start"
    /\ said' = said \o display_welcome_message
    /\ pc' = "gender"
    /\ UNCHANGED <<locals, calculator, frame, prompts, line, printed, err>>

(* One iteration of the loop of read_gender. *)
ReadGender ==
    /\ pc = "gender"
    /\ \E gender \in RawGender :
        /\ prompts' = Append(prompts, InputMsg.gender)
        /\ line' = gender
        /\ IF validate_gender(gender)
           THEN /\ locals' = locals @@ ("gender" :> upper(gender))
                /\ pc' = "age"
                /\ UNCHANGED printed
           ELSE /\ Len(printed) < MaxRetries
                /\ printed' = Append(printed, red(ErrorMsg.gender))
                /\ UNCHANGED <<locals, pc>>
    /\ UNCHANGED <<calculator, frame, said, err>>

(* One iteration of the loop of read_input for the given field; on return  *)
(* __call__ goes on to the next position, saying what it says on the way.  *)
ReadInput(field, input, next, shown) ==
    /\ pc = field
    /\ prompts' = Append(prompts, InputMsg[field])
    /\ line' = input
    /\ IF validate_input(input, field)
       THEN IF int(input).ok
            THEN /\ locals' = locals @@ (field :> int(input).value)
                 /\ pc' = next
                 /\ said' = said \o shown
                 /\ UNCHANGED <<printed, err>>
            ELSE /\ pc' = "error"
                 /\ err' = int(input).error
                 /\ UNCHANGED <<locals, said, printed>>
       ELSE /\ Len(printed) < MaxRetries
            /\ printed' = Append(printed, red(ErrorMsg[field]))
            /\ UNCHANGED <<locals, pc, said, err>>
    /\ UNCHANGED <<calculator, frame>>

ReadAge == \E input \in RawAge : ReadInput("age", input, "height", <<>>)

ReadHeight == \E input \in RawHeight : ReadInput("height", input, "weight", <<>>)

ReadWeight ==
    \E input \in RawWeight :
        ReadInput("weight", input, "activity_level", display_activity_levels)

ReadActivityLevel ==
    \E input \in RawActivityLevel :
        ReadInput("activity_level", input, "goal", display_goals)

ReadGoal == \E input \in RawGoal : ReadInput("goal", input, "construct", <<>>)

Construct ==
    /\ pc = "construct"
    /\ calculator' = <<CalorieCalculator(locals.gender, locals.age, locals.height,
                           locals.weight, locals.activity_level, locals.goal)>>
    /\ pc' = "rmr"
    /\ UNCHANGED <<locals, frame, said, prompts, line, printed, err>>

(* calc_daily_calorie_intake, statement by statement; an exception ends    *)
(* the run with nothing more said.                                         *)
CalcRmr ==
    /\ pc = "rmr"
    /\ LET result == _calc_rmr(calculator[1])
       IN  IF result.ok
           THEN /\ frame' = frame @@ ("rmr" :> result.value)
                /\ pc' = "tdee"
                /\ UNCHANGED err
           ELSE /\ pc' = "error"
                /\ err' = result.error
                /\ UNCHANGED frame
    /\ UNCHANGED <<locals, calculator, said, prompts, line, printed>>

CalcTdee ==
    /\ pc = "tdee"
    /\ LET result == _calc_tdee(calculator[1], frame.rmr)
       IN  IF result.ok
           THEN /\ frame' = frame @@ ("tdee" :> result.value)
                /\ pc' = "intake"
                /\ UNCHANGED err
           ELSE /\ pc' = "error"
                /\ err' = result.error
                /\ UNCHANGED frame
    /\ UNCHANGED <<locals, calculator, said, prompts, line, printed>>

CalcIntake ==
    /\ pc = "intake"
    /\ locals' = locals @@
           ("daily_calorie_intake" :> _calc_daily_calorie_intake(calculator[1], frame.tdee))
    /\ pc' = "display"
    /\ UNCHANGED <<calculator, frame, said, prompts, line, printed, err>>

(* Display handing the TDEE, not the adjusted intake, to the calculator. *)
Display_tdee ==
    /\ pc = "display"
    /\ said' = Append(said, display_calorie_results(calculator[1], frame.tdee))
    /\ pc' = "done"
    /\ UNCHANGED <<locals, calculator, frame, prompts, line, printed, err>>

Display ==
    /\ pc = "display"
    /\ said' = Append(said,
                   display_calorie_results(calculator[1], locals.daily_calorie_intake))
    /\ pc' = "done"
    /\ UNCHANGED <<locals, calculator, frame, prompts, line, printed, err>>

Next ==
    \/ Call
    \/ ReadGender
    \/ ReadAge
    \/ ReadHeight
    \/ ReadWeight
    \/ ReadActivityLevel
    \/ ReadGoal
    \/ Construct
    \/ CalcRmr
    \/ CalcTdee
    \/ CalcIntake
    \/ Display

Spec == Init /\ [][Next]_vars

----------------------------------------------------------------------------
(* The calculator used on its own: built directly by a caller, with any    *)
(* arguments, and either run through calc_daily_calorie_intake or handed   *)
(* an intake to display.                                                   *)

DirectGenders == {M, F, Str(<<"X">>), Str(<<"m">>)}
DirectAges == {IntOf(14), IntOf(25), IntOf(30), IntOf(1000)}
(* The last three heights: 2 * 10^15, 10^308 (the RMR is an infinity) and  *)
(* 2 * 10^308 (too large for a float).                                     *)
DirectHeights ==
    {IntOf(151), IntOf(153), IntOf(160), IntOf(164), IntOf(172), IntOf(180),
     int(HeightInexact).value, MkInt(FALSE, NatPow10(308)), int(HeightTooLarge).value}
DirectWeights == {IntOf(45), IntOf(50), IntOf(80)}
DirectActivityLevels == {IntOf(n) : n \in 0..5}
DirectGoals == {IntOf(n) : n \in 0..4}
DirectIntakes ==
    {IntOf(-100), IntOf(0), IntOf(927), IntOf(1199), IntOf(1200), IntOf(1499),
     IntOf(1500), IntOf(2482)}

InitDirect ==
    /\ pc = "rmr"
    /\ locals = Empty
    /\ \E gender \in DirectGenders, age \in DirectAges, height \in DirectHeights,
          weight \in DirectWeights, activity_level \in DirectActivityLevels,
          goal \in DirectGoals :
            calculator =
                <<CalorieCalculator(gender, age, height, weight, activity_level, goal)>>
    /\ frame = Empty
    /\ said = <<>>
    /\ prompts = <<>>
    /\ line = <<>>
    /\ printed = <<>>
    /\ err = ""

InitDisplay ==
    /\ pc = "display"
    /\ \E cal_intake \in DirectIntakes : locals = ("daily_calorie_intake" :> cal_intake)
    /\ \E gender \in DirectGenders, goal \in DirectGoals :
            calculator = <<CalorieCalculator(gender, IntOf(25), IntOf(180), IntOf(80),
                                             IntOf(2), goal)>>
    /\ frame = Empty
    /\ said = <<>>
    /\ prompts = <<>>
    /\ line = <<>>
    /\ printed = <<>>
    /\ err = ""

UnitSpec == (Init \/ InitDirect \/ InitDisplay) /\ [][Next]_vars

(* The run came through __call__. *)
ViaCall == said # <<>> /\ said[1] = display_welcome_message[1]

----------------------------------------------------------------------------
(* Properties *)

NumericFields == {"age", "height", "weight", "activity_level", "goal"}

FieldIndex(field) == CHOOSE i \in 1..Len(FieldOrder) : FieldOrder[i] = field

PromptIndex(prompt) == CHOOSE i \in 1..Len(FieldOrder) : InputMsg[FieldOrder[i]] = prompt

ResultTexts == {MaleCautionText, FemaleCautionText, LossText, GainText, MaintainText}

CautionTexts == {MaleCautionText, FemaleCautionText}

IsResult(m) == m.text \in ResultTexts

(* The result messages said so far. *)
Results == SelectSeq(said, IsResult)

(* x is an int: a sign and a magnitude with no zero limb at its top. *)
IsInt(x) ==
    /\ DOMAIN x = {"neg", "mag"}
    /\ x.neg \in BOOLEAN
    /\ \A i \in 1..Len(x.mag) : x.mag[i] \in 0..(Base - 1)
    /\ x.mag # <<>> => x.mag[Len(x.mag)] # 0
    /\ x.neg => x.mag # <<>>

Levels == {IntOf(1), IntOf(2), IntOf(3), IntOf(4)}

Goals == {IntOf(1), IntOf(2), IntOf(3)}

(* The offset the goal adds to the TDEE. *)
GoalOffset(goal) ==
    IF goal = IntOf(1) THEN IntOf(-500) ELSE IF goal = IntOf(3) THEN IntOf(500) ELSE IntOf(0)

(* n is x rounded, for x = num / den with den > 0 (all of them ints):      *)
(* nearest integer, and the even one of the two when x is halfway.         *)
IsRounded(n, num, den) ==
    LET twice == NatMulSmall(IntSub(num, IntMul(n, den)).mag, 2)
    IN  \/ NatCmp(twice, den.mag) < 0
        \/ NatCmp(twice, den.mag) = 0 /\ ~NatIsOdd(n.mag)

(* C1: display_calorie_results is given the goal-adjusted intake; it says  *)
(* the caution text without a number when gender is M and intake < 1500 or *)
(* gender is F and intake < 1200, and for every other case with gender M   *)
(* or F the text of the goal (loss for 1, gain for 3, maintain otherwise)  *)
(* with exactly that intake.                                               *)
C1_DisplayBranches ==
    pc = "done" =>
        LET self == calculator[1]
            cal_intake == locals.daily_calorie_intake
            m == said[Len(said)]
        IN  /\ "tdee" \in DOMAIN frame =>
                   cal_intake = IntAdd(frame.tdee, GoalOffset(self._goal))
            /\ (self._gender = M /\ IntLt(cal_intake, IntOf(1500))) =>
                   m = [text |-> MaleCautionText, number |-> <<>>]
            /\ (self._gender = F /\ IntLt(cal_intake, IntOf(1200))) =>
                   m = [text |-> FemaleCautionText, number |-> <<>>]
            /\ \/ self._gender = M /\ IntLe(IntOf(1500), cal_intake)
               \/ self._gender = F /\ IntLe(IntOf(1200), cal_intake)
               => /\ m.number = <<cal_intake>>
                  /\ m.text = IF self._goal = IntOf(1) THEN LossText
                              ELSE IF self._goal = IntOf(3) THEN GainText
                              ELSE MaintainText

(* A run of __call__ where the TDEE is above the minimum and the adjusted  *)
(* intake below it, and the caution was said.                              *)
C1_Witness ==
    /\ pc = "done"
    /\ ViaCall
    /\ calculator[1]._gender = F
    /\ IntLe(IntOf(1200), frame.tdee)
    /\ IntLt(locals.daily_calorie_intake, IntOf(1200))
    /\ said[Len(said)].text = FemaleCautionText

(* C2: the CalorieCalculator of a run of __call__ is built only with       *)
(* gender M or F (upper case), integer age >= 14, integer height > 0,      *)
(* integer weight > 0, activity level in 1..4 and goal in 1..3; and no     *)
(* value breaking its field's predicate is ever accepted.                  *)
C2_ValidFields ==
    /\ "gender" \in DOMAIN locals => locals.gender \in {M, F}
    /\ "age" \in DOMAIN locals => IsInt(locals.age) /\ IntLe(IntOf(14), locals.age)
    /\ "height" \in DOMAIN locals => IsInt(locals.height) /\ IntLt(IntOf(0), locals.height)
    /\ "weight" \in DOMAIN locals => IsInt(locals.weight) /\ IntLt(IntOf(0), locals.weight)
    /\ "activity_level" \in DOMAIN locals => locals.activity_level \in Levels
    /\ "goal" \in DOMAIN locals => locals.goal \in Goals
    /\ calculator # <<>> =>
           LET self == calculator[1]
           IN  /\ self._gender \in {<<77>>, <<70>>}
               /\ IsInt(self._age) /\ IntLe(IntOf(14), self._age)
               /\ IsInt(self._height) /\ IntLt(IntOf(0), self._height)
               /\ IsInt(self._weight) /\ IntLt(IntOf(0), self._weight)
               /\ self._activity_level \in Levels
               /\ self._goal \in Goals

(* A calculator built after some lines were refused. *)
C2_Witness == ViaCall /\ calculator # <<>> /\ Len(printed) > 0

(* The line just read is refused: the field's message is printed once, the *)
(* same field is prompted next, nothing accepted so far changes.           *)
Refused(field) ==
    /\ pc' = field
    /\ locals' = locals
    /\ printed' = Append(printed, red(ErrorMsg[field]))
    /\ said' = said
    /\ calculator' = calculator
    /\ err' = ""
    /\ \A later \in NumericFields :
           FieldIndex(later) > FieldIndex(field) =>
               \A i \in 1..Len(prompts') : prompts'[i] # InputMsg[later]

(* C3: for each numeric field, a line that is not an integer and a line    *)
(* that is an integer out of the field's range are treated alike: refused, *)
(* the field's error message printed once, the same field prompted again,  *)
(* no accepted value changed, no later field prompted; no exception leaves *)
(* the collector (none while a field is being read, and never a            *)
(* ValueError).  For age, "x" is refused and "25" then accepted as 25, and *)
(* "10" is refused.                                                        *)
C3_RefusedAlike ==
    /\ [](err # "ValueError" /\ (pc \in DOMAIN InputMsg => err = ""))
    /\ [][\A field \in NumericFields :
            (pc = field /\ prompts' # prompts) =>
                LET parsed == int(line')
                    out_of_range ==
                        CASE field = "age" -> IntLt(parsed.value, IntOf(14))
                          [] field = "height" -> IntLe(parsed.value, IntOf(0))
                          [] field = "weight" -> IntLe(parsed.value, IntOf(0))
                          [] field = "activity_level" -> parsed.value \notin Levels
                          [] field = "goal" -> parsed.value \notin Goals
                IN  /\ prompts' = Append(prompts, InputMsg[field])
                    /\ IF ~parsed.ok THEN Refused(field)
                       ELSE IF out_of_range THEN Refused(field)
                       ELSE /\ locals' = locals @@ (field :> parsed.value)
                            /\ pc' \in DOMAIN InputMsg \cup {"construct"}
                            /\ pc' # field
                            /\ printed' = printed
                            /\ err' = ""
                    /\ (field = "age" /\ line' = <<120>>) => Refused("age")
                    /\ (field = "age" /\ line' = <<49, 48>>) => Refused("age")
                    /\ (field = "age" /\ line' = <<50, 53>>) =>
                           locals'.age = IntOf(25) /\ pc' = "height"]_vars

(* "x" was typed for the age and refused. *)
C3_Witness ==
    /\ pc = "age"
    /\ line = <<120>>
    /\ Len(prompts) >= 2
    /\ prompts[Len(prompts)] = InputMsg.age
    /\ printed # <<>>
    /\ printed[Len(printed)] = red(ErrorMsg.age)

(* The six fields are a valid combination. *)
IsValid(self) ==
    /\ self._gender \in {M, F}
    /\ IntLe(IntOf(14), self._age)
    /\ IntLt(IntOf(0), self._height)
    /\ IntLt(IntOf(0), self._weight)
    /\ self._activity_level \in Levels
    /\ self._goal \in Goals

(* C4: for every valid combination calc_daily_calorie_intake returns       *)
(* round((10*weight + 6.25*height - 5*age + c) * f) + d, with c = 5 for M  *)
(* and -161 otherwise, f = 1.2, 1.375, 1.55, 1.725 for levels 1..4 and     *)
(* d = -500, 0, +500 for goals 1, 2, 3; for goal 2 that is the rounded     *)
(* TDEE itself; (M,25,180,80,2,2) gives 2482, (M,25,180,80,2,1) gives 1982 *)
(* and (F,30,160,50,1,1) gives 927.  (The formula in hundredths times      *)
(* thousandths: exact.)                                                    *)
C4_IntakeFormula ==
    (calculator # <<>> /\ IsValid(calculator[1])) =>
        LET self == calculator[1]
            c == IF self._gender = M THEN 5 ELSE -161
            f == CASE self._activity_level = IntOf(1) -> 1200
                   [] self._activity_level = IntOf(2) -> 1375
                   [] self._activity_level = IntOf(3) -> 1550
                   [] self._activity_level = IntOf(4) -> 1725
            rmr == IntAdd(IntAdd(IntMul(IntOf(1000), self._weight),
                                 IntMul(IntOf(625), self._height)),
                          IntAdd(IntMul(IntOf(-500), self._age), IntOf(100 * c)))
            out == locals.daily_calorie_intake
        IN  /\ pc # "error"
            /\ ("daily_calorie_intake" \in DOMAIN locals /\ "tdee" \in DOMAIN frame) =>
                   /\ IsRounded(IntSub(out, GoalOffset(self._goal)),
                                IntMul(rmr, IntOf(f)), IntOf(100000))
                   /\ self._goal = IntOf(2) => out = frame.tdee
                   /\ self = CalorieCalculator(M, IntOf(25), IntOf(180), IntOf(80),
                                               IntOf(2), IntOf(2)) => out = IntOf(2482)
                   /\ self = CalorieCalculator(M, IntOf(25), IntOf(180), IntOf(80),
                                               IntOf(2), IntOf(1)) => out = IntOf(1982)
                   /\ self = CalorieCalculator(F, IntOf(30), IntOf(160), IntOf(50),
                                               IntOf(1), IntOf(1)) => out = IntOf(927)

(* C5: two calculators that differ only in the goal, 1 (lose) against 3    *)
(* (gain), compute intakes exactly 1000 apart: gain - lose = 1000.         *)
C5_GainMinusLose ==
    ("daily_calorie_intake" \in DOMAIN locals /\ "tdee" \in DOMAIN frame) =>
        LET self == calculator[1]
            lose == calc_daily_calorie_intake([self EXCEPT !._goal = IntOf(1)])
            gain == calc_daily_calorie_intake([self EXCEPT !._goal = IntOf(3)])
        IN  /\ self._goal = IntOf(3) =>
                   lose.ok /\ IntSub(locals.daily_calorie_intake, lose.value) = IntOf(1000)
            /\ self._goal = IntOf(1) =>
                   gain.ok /\ IntSub(gain.value, locals.daily_calorie_intake) = IntOf(1000)

(* A gain calculator that computed its intake from an RMR that is not      *)
(* exact.                                                                  *)
C5_Witness ==
    /\ calculator # <<>>
    /\ calculator[1]._goal = IntOf(3)
    /\ calculator[1]._height = int(HeightInexact).value
    /\ "tdee" \in DOMAIN frame
    /\ "daily_calorie_intake" \in DOMAIN locals

(* C6: _calc_rmr for gender M is _calc_rmr for gender F plus 166, for the  *)
(* same age, height and weight: the sum of the female result and 166 as    *)
(* the program's arithmetic gives it, and a difference of 166 exactly when *)
(* the results are finite; any gender other than M gives the female        *)
(* result.                                                                 *)
C6_RmrGender ==
    "rmr" \in DOMAIN frame =>
        LET self == calculator[1]
            female == _calc_rmr([self EXCEPT !._gender = F])
            plus == FloatOfInt(IntOf(166)).value
        IN  /\ female.ok
            /\ self._gender = M =>
                   /\ frame.rmr = FloatAdd(female.value, plus)
                   /\ ~frame.rmr.inf =>
                          DyadicAdd(frame.rmr,
                                    [female.value EXCEPT !.neg = ~@ /\ female.value.mant # <<>>])
                              = plus
            /\ self._gender # M => frame.rmr = female.value

(* C7: __call__ prompts in the order gender, age, height, weight, activity *)
(* level, goal, each field only after the one before was accepted; says no *)
(* result before all six are accepted; and a completed run has said        *)
(* exactly one result, the caution or a recommendation carrying the fully  *)
(* computed intake.                                                        *)
C7_OrderAndOneResult ==
    /\ \A i \in 1..Len(prompts) :
           /\ \E field \in DOMAIN InputMsg : InputMsg[field] = prompts[i]
           /\ i > 1 => PromptIndex(prompts[i - 1]) <= PromptIndex(prompts[i])
           /\ i > 1 => PromptIndex(prompts[i]) <= PromptIndex(prompts[i - 1]) + 1
    /\ prompts # <<>> => prompts[1] = InputMsg.gender
    /\ \A k \in 1..Len(FieldOrder) :
           (\E i \in 1..Len(prompts) : prompts[i] = InputMsg[FieldOrder[k]]) =>
               \A j \in 1..(k - 1) : FieldOrder[j] \in DOMAIN locals
    /\ Results # <<>> =>
           \A k \in 1..Len(FieldOrder) : FieldOrder[k] \in DOMAIN locals
    /\ pc # "done" => Results = <<>>
    /\ pc = "done" =>
           /\ Len(Results) = 1
           /\ said[Len(said)] = Results[1]
           /\ \/ Results[1].text \in CautionTexts /\ Results[1].number = <<>>
              \/ /\ Results[1].text \notin CautionTexts
                 /\ Results[1].number = <<locals.daily_calorie_intake>>
                 /\ locals.daily_calorie_intake
                        = IntAdd(frame.tdee, GoalOffset(locals.goal))

(* A completed run with refused lines and a recommendation for goal 1. *)
C7_Witness ==
    /\ pc = "done"
    /\ Len(prompts) > 6
    /\ locals.goal = IntOf(1)
    /\ Results[1].number = <<locals.daily_calorie_intake>>

(* C8: with an activity level outside 1..4, calc_daily_calorie_intake ends *)
(* with an error: no factor is made up, no intake is returned and no       *)
(* result is said; and no run of __call__ meets the failed lookup.         *)
C8_LookupFails ==
    /\ ViaCall => err # "TypeError"
    /\ err = "TypeError" =>
           /\ pc = "error"
           /\ calculator # <<>>
           /\ calculator[1]._activity_level \notin Levels
    /\ (calculator # <<>> /\ calculator[1]._activity_level \notin Levels) =>
           /\ ~ViaCall
           /\ pc \in {"rmr", "tdee", "error"}
           /\ pc = "error" <=> err # ""
           /\ (pc = "error" /\ "rmr" \in DOMAIN frame) => err = "TypeError"
           /\ "tdee" \notin DOMAIN frame
           /\ "daily_calorie_intake" \notin DOMAIN locals
           /\ Results = <<>>

(* The calculation of a calculator with activity level 5 failed at the     *)
(* lookup.                                                                 *)
C8_Witness ==
    /\ pc = "error"
    /\ err = "TypeError"
    /\ calculator[1]._activity_level = IntOf(5)
    /\ "rmr" \in DOMAIN frame

(* The run has stopped: it said its result or an exception ended it. *)
Stopped == pc \in {"done", "error"}

AllAccepted == \A k \in 1..Len(FieldOrder) : FieldOrder[k] \in DOMAIN locals

(* C9: the prompt loops have no retry limit of their own.  A run of        *)
(* __call__ ends by saying the result if and only if the user gave a valid *)
(* line for each of the six fields: a run that stopped after all six       *)
(* fields were accepted stopped on the result, the result is said only     *)
(* with the six fields accepted, and a run that is on a field has no       *)
(* calculator.                                                             *)
C9_Termination ==
    /\ (Stopped /\ AllAccepted) => (pc = "done" /\ Results # <<>>)
    /\ Results # <<>> => AllAccepted
    /\ pc \in DOMAIN InputMsg => (calculator = <<>> /\ ~AllAccepted)

(* C10: every number __call__ shows in a recommendation is at least 1500   *)
(* for gender M and at least 1200 for gender F, so never zero or negative, *)
(* although the intake itself can be zero or negative.                     *)
C10_ShownAboveMinimum ==
    ViaCall =>
        \A i \in 1..Len(said) :
            said[i].number # <<>> =>
                /\ IntLt(IntOf(0), said[i].number[1])
                /\ locals.gender = M => IntLe(IntOf(1500), said[i].number[1])
                /\ locals.gender = F => IntLe(IntOf(1200), said[i].number[1])

(* A completed run whose intake is negative and which said a caution. *)
C10_Witness ==
    /\ pc = "done"
    /\ ViaCall
    /\ IntLe(locals.daily_calorie_intake, IntOf(0))
    /\ Results[1].number = <<>>

====
